---- MODULE Spec2Model ----
(***************************************************************************)
(* Model of the schema-driven environment loader (src/env.ts) and of its   *)
(* error taxonomy (src/errors.ts).                                         *)
(*                                                                         *)
(* A JavaScript string is a sequence of one-character strings, so that     *)
(* startsWith, endsWith, split, toLowerCase, Number and JSON.parse are     *)
(* computed character by character.                                        *)
(***************************************************************************)
EXTENDS Integers, Sequences, FiniteSets, TLC

(***************************************************************************)
(* Bounds of the model.                                                    *)
(***************************************************************************)
MaxEnvKeys == 2
MaxSchemaKeys == 2
MaxNumLen == 4
MaxBoolLen == 3
MaxArrLen == 4
MaxCalls == 2
MaxFiles == 2

(***************************************************************************)
(* JavaScript values.                                                      *)
(***************************************************************************)
Undefined == [k |-> "undefined"]
NaN == [k |-> "nan"]
Str(s) == [k |-> "string", s |-> s]
Bool(b) == [k |-> "boolean", b |-> b]
Infinity(neg) == [k |-> "infinity", neg |-> neg]
\* a finite number: 0.d1 d2 ... dk * 10^n, digs without leading or trailing
\* zero; zero has no digit (and keeps its sign, as IEEE-754 does)
Num(neg, digs, n) == [k |-> "number", neg |-> neg, digs |-> digs, n |-> n]
Arr(items) == [k |-> "array", items |-> items]
Obj(fields) == [k |-> "object", fields |-> fields]
DateVal(ms) == [k |-> "date", ms |-> ms]

(***************************************************************************)
(* String helpers: methods of String.prototype.                            *)
(***************************************************************************)
Digits == {"0", "1", "2", "3", "4", "5", "6", "7", "8", "9"}

DigitVal(c) ==
  CASE c = "0" -> 0 [] c = "1" -> 1 [] c = "2" -> 2 [] c = "3" -> 3
    [] c = "4" -> 4 [] c = "5" -> 5 [] c = "6" -> 6 [] c = "7" -> 7
    [] c = "8" -> 8 [] c = "9" -> 9

DigitChar(d) ==
  CASE d = 0 -> "0" [] d = 1 -> "1" [] d = 2 -> "2" [] d = 3 -> "3"
    [] d = 4 -> "4" [] d = 5 -> "5" [] d = 6 -> "6" [] d = 7 -> "7"
    [] d = 8 -> "8" [] d = 9 -> "9"

AllDigits(s) == \A i \in 1..Len(s) : s[i] \in Digits

StartsWith(s, c) == Len(s) >= 1 /\ s[1] = c
EndsWith(s, c) == Len(s) >= 1 /\ s[Len(s)] = c

LowerChar(c) ==
  CASE c = "A" -> "a" [] c = "E" -> "e" [] c = "F" -> "f" [] c = "L" -> "l"
    [] c = "N" -> "n" [] c = "O" -> "o" [] c = "R" -> "r" [] c = "S" -> "s"
    [] c = "T" -> "t" [] c = "U" -> "u" [] c = "Y" -> "y" [] c = "X" -> "x"
    [] OTHER -> c

ToLowerCase(s) == [i \in 1..Len(s) |-> LowerChar(s[i])]

\* index of the first occurrence of a character of set cs in s, 0 if none
RECURSIVE IndexFrom(_, _, _)
IndexFrom(s, cs, i) ==
  IF i > Len(s) THEN 0
  ELSE IF s[i] \in cs THEN i
  ELSE IndexFrom(s, cs, i + 1)

IndexOf(s, cs) == IndexFrom(s, cs, 1)

\* String.prototype.split(','): the items between the separators, in order
RECURSIVE Split(_, _)
Split(s, sep) ==
  LET i == IndexOf(s, {sep})
  IN IF i = 0 THEN <<s>>
     ELSE <<SubSeq(s, 1, i - 1)>> \o Split(SubSeq(s, i + 1, Len(s)), sep)

RECURSIVE TrimLeft(_)
TrimLeft(s) == IF Len(s) >= 1 /\ s[1] = " " THEN TrimLeft(Tail(s)) ELSE s

RECURSIVE TrimRight(_)
TrimRight(s) ==
  IF Len(s) >= 1 /\ s[Len(s)] = " " THEN TrimRight(SubSeq(s, 1, Len(s) - 1))
  ELSE s

Trim(s) == TrimRight(TrimLeft(s))

(***************************************************************************)
(* Number(value) and Number.prototype.toString().                          *)
(***************************************************************************)
RECURSIVE StripLeadingZeros(_)
StripLeadingZeros(ds) ==
  IF Len(ds) >= 1 /\ ds[1] = 0 THEN StripLeadingZeros(Tail(ds)) ELSE ds

RECURSIVE StripTrailingZeros(_)
StripTrailingZeros(ds) ==
  IF Len(ds) >= 1 /\ ds[Len(ds)] = 0
  THEN StripTrailingZeros(SubSeq(ds, 1, Len(ds) - 1))
  ELSE ds

RECURSIVE DigitsToInt(_)
DigitsToInt(s) ==
  IF Len(s) = 0 THEN 0
  ELSE 10 * DigitsToInt(SubSeq(s, 1, Len(s) - 1)) + DigitVal(s[Len(s)])

RECURSIVE NatToStr(_)
NatToStr(n) ==
  IF n < 10 THEN <<DigitChar(n)>>
  ELSE NatToStr(n \div 10) \o <<DigitChar(n % 10)>>

Zeros(n) == [i \in 1..n |-> "0"]

InfinityStr == <<"I", "n", "f", "i", "n", "i", "t", "y">>

DigitValues(s) == [i \in 1..Len(s) |-> DigitVal(s[i])]

\* the number 0.digs * 10^n, within the range of a double
Scaled(neg, digs, n) ==
  IF Len(digs) = 0 THEN Num(neg, <<>>, 0)
  ELSE IF n - 1 > 308 THEN Infinity(neg)
  ELSE IF n - 1 < -324 THEN Num(neg, <<>>, 0)
  ELSE Num(neg, digs, n)

\* lead: the digits without leading zeros, fl of them after the point
Normalized(neg, lead, fl, e) ==
  Scaled(neg, StripTrailingZeros(lead), Len(lead) - fl + e)

\* the value of the digit string ip.fp times 10^e
Normalize(neg, ip, fp, e) ==
  Normalized(neg, StripLeadingZeros(DigitValues(ip \o fp)), Len(fp), e)

ExponentDigits(expo) ==
  IF Len(expo) >= 1 /\ expo[1] \in {"+", "-"} THEN Tail(expo) ELSE expo

\* ExponentPart without its e: [+-] digits
ExponentOk(expo) ==
  Len(ExponentDigits(expo)) >= 1 /\ AllDigits(ExponentDigits(expo))

ExponentValue(expo) ==
  IF expo[1] = "-" THEN 0 - DigitsToInt(ExponentDigits(expo))
  ELSE DigitsToInt(ExponentDigits(expo))

\* digits [. digits] | . digits, times 10^e
DecimalDigits(neg, ip, fp, e) ==
  IF AllDigits(ip) /\ AllDigits(fp) /\ Len(ip) + Len(fp) >= 1
  THEN Normalize(neg, ip, fp, e)
  ELSE NaN

\* the mantissa mant with its point at index dot (0: no point)
MantissaAt(neg, mant, dot, e) ==
  IF dot = 0 THEN DecimalDigits(neg, mant, <<>>, e)
  ELSE DecimalDigits(neg, SubSeq(mant, 1, dot - 1),
                     SubSeq(mant, dot + 1, Len(mant)), e)

Mantissa(neg, mant, e) == MantissaAt(neg, mant, IndexOf(mant, {"."}), e)

WithExponent(neg, mant, expo) ==
  IF ExponentOk(expo) THEN Mantissa(neg, mant, ExponentValue(expo)) ELSE NaN

\* the literal u with its e at index ePos (0: no exponent)
ExponentAt(neg, u, ePos) ==
  IF ePos = 0 THEN Mantissa(neg, u, 0)
  ELSE WithExponent(neg, SubSeq(u, 1, ePos - 1), SubSeq(u, ePos + 1, Len(u)))

\* StrUnsignedDecimalLiteral: Infinity | digits [. digits] [exp]
\*                            | . digits [exp]
UnsignedDecimal(neg, u) ==
  IF u = InfinityStr THEN Infinity(neg)
  ELSE ExponentAt(neg, u, IndexOf(u, {"e", "E"}))

\* StrDecimalLiteral: [+-] StrUnsignedDecimalLiteral
SignedDecimal(t) ==
  IF Len(t) = 0 THEN Num(FALSE, <<>>, 0)
  ELSE IF t[1] = "-" THEN UnsignedDecimal(TRUE, Tail(t))
  ELSE IF t[1] = "+" THEN UnsignedDecimal(FALSE, Tail(t))
  ELSE UnsignedDecimal(FALSE, t)

\* Number(s) for a string s: StringToNumber of ECMA-262 restricted to the
\* decimal literals (the alphabets of the model hold no x, o or b after 0)
ToNumber(s) == SignedDecimal(Trim(s))

DigitStr(ds) == [i \in 1..Len(ds) |-> DigitChar(ds[i])]

\* the exponent part of the exponential notation
ExponentStr(e) ==
  IF e < 0 THEN <<"e", "-">> \o NatToStr(0 - e) ELSE <<"e", "+">> \o NatToStr(e)

\* the digits d (k of them) of 0.d * 10^n as Number::toString writes them
DigitsToString(d, k, n) ==
  IF k <= n /\ n <= 21 THEN d \o Zeros(n - k)
  ELSE IF 0 < n /\ n <= 21
  THEN SubSeq(d, 1, n) \o <<".">> \o SubSeq(d, n + 1, k)
  ELSE IF -6 < n /\ n <= 0 THEN <<"0", ".">> \o Zeros(0 - n) \o d
  ELSE IF k = 1 THEN d \o ExponentStr(n - 1)
  ELSE <<d[1], ".">> \o SubSeq(d, 2, k) \o ExponentStr(n - 1)

\* Number::toString(x) of ECMA-262, radix 10
NumberToString(x) ==
  IF x.k = "nan" THEN <<"N", "a", "N">>
  ELSE IF x.k = "infinity"
  THEN (IF x.neg THEN <<"-">> ELSE <<>>) \o InfinityStr
  ELSE IF Len(x.digs) = 0 THEN <<"0">>
  ELSE (IF x.neg THEN <<"-">> ELSE <<>>)
         \o DigitsToString(DigitStr(x.digs), Len(x.digs), x.n)

IsNaN(x) == x.k = "nan"

(***************************************************************************)
(* JSON.parse, for the JSON texts the alphabets of the model can spell:    *)
(* arrays, objects, strings without escapes and unsigned integers, without *)
(* white space.  The result is [ok, v, next]: next is the index after the  *)
(* value.                                                                  *)
(***************************************************************************)
JsonFail == [ok |-> FALSE, v |-> Undefined, next |-> 0]

JsonOk(v, next) == [ok |-> TRUE, v |-> v, next |-> next]

RECURSIVE DigitRunEnd(_, _)
DigitRunEnd(s, i) ==
  IF i + 1 <= Len(s) /\ s[i + 1] \in Digits THEN DigitRunEnd(s, i + 1) ELSE i

\* the string that opens at index i and closes at index j (0: unclosed)
JsonString(s, i, j) ==
  IF j = 0 THEN JsonFail ELSE JsonOk(Str(SubSeq(s, i + 1, j - 1)), j + 1)

\* the number that spans the indices i..j
JsonNumber(s, i, j) ==
  IF s[i] = "0" /\ j > i THEN JsonFail
  ELSE JsonOk(ToNumber(SubSeq(s, i, j)), j + 1)

RECURSIVE JsonValue(_, _)
RECURSIVE JsonElements(_, _, _)
RECURSIVE JsonMembers(_, _, _)

JsonValue(s, i) ==
  IF i > Len(s) THEN JsonFail
  ELSE IF s[i] = "[" THEN
    IF i + 1 <= Len(s) /\ s[i + 1] = "]" THEN JsonOk(Arr(<<>>), i + 2)
    ELSE JsonElements(s, i + 1, <<>>)
  ELSE IF s[i] = "{" THEN
    IF i + 1 <= Len(s) /\ s[i + 1] = "}" THEN JsonOk(Obj(<<>>), i + 2)
    ELSE JsonMembers(s, i + 1, <<>>)
  ELSE IF s[i] = "\"" THEN JsonString(s, i, IndexFrom(s, {"\""}, i + 1))
  ELSE IF s[i] \in Digits THEN JsonNumber(s, i, DigitRunEnd(s, i))
  ELSE JsonFail

\* after the element r of an array: a comma and the next one, or the end
AfterElement(s, acc, r) ==
  IF ~r.ok \/ r.next > Len(s) THEN JsonFail
  ELSE IF s[r.next] = ","
  THEN JsonElements(s, r.next + 1, Append(acc, r.v))
  ELSE IF s[r.next] = "]" THEN JsonOk(Arr(Append(acc, r.v)), r.next + 1)
  ELSE JsonFail

JsonElements(s, i, acc) == AfterElement(s, acc, JsonValue(s, i))

\* after the value r of the member key of an object
AfterMember(s, acc, key, r) ==
  IF ~r.ok \/ r.next > Len(s) THEN JsonFail
  ELSE IF s[r.next] = ","
  THEN JsonMembers(s, r.next + 1, Append(acc, <<key, r.v>>))
  ELSE IF s[r.next] = "}"
  THEN JsonOk(Obj(Append(acc, <<key, r.v>>)), r.next + 1)
  ELSE JsonFail

\* after the key of a member: a colon and the value
AfterKey(s, acc, key) ==
  IF ~key.ok \/ key.v.k # "string" \/ key.next > Len(s) THEN JsonFail
  ELSE IF s[key.next] # ":" THEN JsonFail
  ELSE AfterMember(s, acc, key.v.s, JsonValue(s, key.next + 1))

JsonMembers(s, i, acc) == AfterKey(s, acc, JsonValue(s, i))

WholeText(s, r) == IF r.ok /\ r.next = Len(s) + 1 THEN r ELSE JsonFail

\* JSON.parse(s): [ok |-> FALSE] stands for the SyntaxError it throws
JsonParse(s) == WholeText(s, JsonValue(s, 1))

(***************************************************************************)
(* Date.parse.  The date-only ISO form YYYY-MM-DD is the one the standard  *)
(* fixes; a string without a digit is no date for any engine; for the      *)
(* rest the standard lets the engine choose, and legacy tells which way    *)
(* the engine at hand chose.                                               *)
(***************************************************************************)
Timestamp(s) == [k |-> "number", neg |-> FALSE, digs |-> <<>>, n |-> 0, of |-> s]

IsIsoDate(s) ==
  /\ Len(s) = 10
  /\ s[5] = "-" /\ s[8] = "-"
  /\ \A i \in {1, 2, 3, 4, 6, 7, 9, 10} : s[i] \in Digits
  /\ DigitsToInt(SubSeq(s, 6, 7)) \in 1..12
  /\ DigitsToInt(SubSeq(s, 9, 10)) \in 1..28

DateParse(s, legacy) ==
  IF IsIsoDate(s) THEN Timestamp(s)
  ELSE IF \A i \in 1..Len(s) : s[i] \notin Digits THEN NaN
  ELSE IF legacy THEN Timestamp(s)
  ELSE NaN

(***************************************************************************)
(* Field rules: the Joi schemas of an EnvSchema.  type is the schema's     *)
(* type tag ("undefined": the entry is no Joi schema and has neither a     *)
(* type nor a $_getFlag method), presence its presence flag ("default":    *)
(* flag not set), min the bound of number().min(), given as a set of at    *)
(* most one integer, items the item schema of array().items(), given as a  *)
(* sequence of at most one rule, allowEmpty the allow('') of a string      *)
(* rule, abortEarly the abortEarly preference (Joi's default is true).     *)
(***************************************************************************)
Rule(type, presence, min, items, allowEmpty, abortEarly) ==
  [type |-> type, presence |-> presence, min |-> min, items |-> items,
   allowEmpty |-> allowEmpty, abortEarly |-> abortEarly]

SupportedTypes ==
  {"array", "boolean", "date", "number", "object", "any", "string"}

\* the fallback validator without allow('')
FallbackRuleNoEmpty == Rule("string", "optional", {}, <<>>, FALSE, TRUE)

\* Joi.string().optional().allow(''), the rule of a key without schema entry
FallbackRule == Rule("string", "optional", {}, <<>>, TRUE, TRUE)

\* validator.$_getFlag('presence')
GetPresenceFlag(rule) == rule.presence

(***************************************************************************)
(* validator.validate(casted), for the constraints a Rule can carry.  The  *)
(* result is [details, value]: details are Joi's error details, each with  *)
(* the path and the code of one violated constraint, in Joi's order.       *)
(***************************************************************************)
Detail(path, code) == [path |-> path, code |-> code]

\* a < b for two digit sequences read as fractions 0.a and 0.b
RECURSIVE FractionLess(_, _)
FractionLess(a, b) ==
  IF Len(b) = 0 THEN FALSE
  ELSE IF Len(a) = 0 THEN \E i \in 1..Len(b) : b[i] # 0
  ELSE IF a[1] # b[1] THEN a[1] < b[1]
  ELSE FractionLess(Tail(a), Tail(b))

\* 0.digs * 10^n < 0.md * 10^Len(md), for digs and md without leading zero
DigitsLess(digs, n, md) ==
  IF n < Len(md) THEN TRUE
  ELSE IF n > Len(md) THEN FALSE
  ELSE FractionLess(digs, md)

\* x < m, for a finite number x and an integer m > 0
NumLess(x, m) ==
  IF Len(x.digs) = 0 \/ x.neg THEN TRUE
  ELSE DigitsLess(x.digs, x.n, DigitValues(NatToStr(m)))

\* the violations of a number rule by a number: Joi checks infinity, then
\* the safe range (|x| <= 2^53 - 1, sixteen digits), then the rule's bounds
NumberDetails(rule, x, path) ==
  IF x.k = "infinity" THEN <<Detail(path, "number.infinity")>>
  ELSE IF x.k # "number" THEN <<Detail(path, "number.base")>>
  ELSE IF x.n > 16 THEN <<Detail(path, "number.unsafe")>>
  ELSE IF \E m \in rule.min : NumLess(x, m)
  THEN <<Detail(path, "number.min")>>
  ELSE <<>>

\* Joi converts a string that spells a number before it validates it
\* (convert is on by default); other strings stay as they are
Coerce(rule, v) ==
  IF rule.type = "number" /\ v.k = "string" /\ Len(v.s) >= 1 /\ AllDigits(v.s)
  THEN ToNumber(v.s)
  ELSE IF rule.type = "date" /\ v.k = "number" /\ "of" \in DOMAIN v
  THEN DateVal(v.of)
  ELSE v

ScalarDetails(rule, v, path) ==
  CASE rule.type = "number" -> NumberDetails(rule, v, path)
    [] rule.type = "string" ->
         IF v.k # "string" THEN <<Detail(path, "string.base")>>
         ELSE IF Len(v.s) = 0 /\ ~rule.allowEmpty
         THEN <<Detail(path, "string.empty")>>
         ELSE <<>>
    [] rule.type = "boolean" ->
         IF v.k # "boolean" THEN <<Detail(path, "boolean.base")>> ELSE <<>>
    [] rule.type = "date" ->
         IF v.k # "date" THEN <<Detail(path, "date.base")>> ELSE <<>>
    [] rule.type = "object" ->
         IF v.k # "object" THEN <<Detail(path, "object.base")>> ELSE <<>>
    [] OTHER -> <<>>

RECURSIVE ItemDetails(_, _, _)
ItemDetails(rule, items, i) ==
  IF i > Len(items) THEN <<>>
  ELSE ScalarDetails(rule, Coerce(rule, items[i]), <<i - 1>>)
         \o ItemDetails(rule, items, i + 1)

\* every violation of the rule by the value, as Joi finds them
AllDetails(rule, v) ==
  IF rule.type = "array" THEN
    IF v.k # "array" THEN <<Detail(<<>>, "array.base")>>
    ELSE IF Len(rule.items) = 0 THEN <<>>
    ELSE ItemDetails(rule.items[1], v.items, 1)
  ELSE ScalarDetails(rule, Coerce(rule, v), <<>>)

Converted(rule, v) ==
  IF rule.type = "array" /\ v.k = "array" /\ Len(rule.items) = 1
  THEN Arr([i \in 1..Len(v.items) |-> Coerce(rule.items[1], v.items[i])])
  ELSE Coerce(rule, v)

\* with abortEarly Joi stops at the first violation and reports that one
Report(rule, all, value) ==
  [details |-> IF rule.abortEarly /\ Len(all) > 1 THEN <<all[1]>> ELSE all,
   value |-> value]

\* validator.validate(casted)
Validate(rule, v) == Report(rule, AllDetails(rule, v), Converted(rule, v))

(***************************************************************************)
(* The errors of src/errors.ts: the class name, the variable the message   *)
(* names, and the messages of an EnvSchemaValidationError.                 *)
(***************************************************************************)
NoError == [name |-> "none", variable |-> "", messages |-> <<>>]

EnvSchemaTypeError(variable, type) ==
  [name |-> "EnvSchemaTypeError", variable |-> variable, messages |-> <<>>]

EnvMissingError(variable) ==
  [name |-> "EnvMissingError", variable |-> variable, messages |-> <<>>]

EnvSchemaValidationError(key, messages) ==
  [name |-> "EnvSchemaValidationError", variable |-> key,
   messages |-> messages]

EnvUnparseableFromJSONError(variable) ==
  [name |-> "EnvUnparseableFromJSONError", variable |-> variable,
   messages |-> <<>>]

EnvUnparseableNumberError(variable) ==
  [name |-> "EnvUnparseableNumberError", variable |-> variable,
   messages |-> <<>>]

EnvUnparseableDateError(variable) ==
  [name |-> "EnvUnparseableDateError", variable |-> variable,
   messages |-> <<>>]

EnvUnparseableBooleanError(variable) ==
  [name |-> "EnvUnparseableBooleanError", variable |-> variable,
   messages |-> <<>>]

\* a TypeError of the engine: a call of a method the object does not have
TypeError(variable) ==
  [name |-> "TypeError", variable |-> variable, messages |-> <<>>]

\* dot.pick(dotPath, source): the element of source the path leads to; the
\* empty path is the key '' and leads nowhere
Pick(path, source) ==
  IF Len(path) = 1 /\ source.k = "array" /\ path[1] + 1 <= Len(source.items)
  THEN source.items[path[1] + 1]
  ELSE Undefined

\* EnvSchemaValidationError.fromJoi: one message per detail of the error
FromJoi(key, details, source) ==
  EnvSchemaValidationError(key,
    [i \in 1..Len(details) |->
       [code |-> details[i].code, path |-> details[i].path,
        got |-> Pick(details[i].path, source)]])

(***************************************************************************)
(* The casters of Env.  A caster returns [ok, v, err, casted]: ok with the *)
(* value v it returns, or not ok with the error err it throws; casted is   *)
(* the converted value it handed to the validator, Undefined if it never   *)
(* got that far.                                                           *)
(***************************************************************************)
Returned(v, casted) == [ok |-> TRUE, v |-> v, err |-> NoError, casted |-> casted]
Thrown(err, casted) == [ok |-> FALSE, v |-> Undefined, err |-> err, casted |-> casted]

\* the absence check every caster starts with
AbsentResult(key, validator) ==
  IF GetPresenceFlag(validator) = "optional" THEN Returned(Undefined, Undefined)
  ELSE Thrown(EnvMissingError(key), Undefined)

\* Validated returning the casted value, not the value of the validator
ValidatedReturnsCasted(key, casted, r) ==
  IF Len(r.details) > 0 THEN Thrown(FromJoi(key, r.details, casted), casted)
  ELSE Returned(casted, casted)

\* what a caster does with the result r of validator.validate(casted)
Validated(key, casted, r) ==
  IF Len(r.details) > 0 THEN Thrown(FromJoi(key, r.details, casted), casted)
  ELSE Returned(r.value, casted)

\* the try block every caster ends with
ValidateCasted(key, casted, validator) ==
  Validated(key, casted, Validate(validator, casted))

\* IsBracketed without the test of the closing bracket
IsBracketedOpenOnly(s) == StartsWith(s, "[")

IsBracketed(s) == StartsWith(s, "[") /\ EndsWith(s, "]")

\* value.split(','), an array of strings
SplitItems(parts) == Arr([i \in 1..Len(parts) |-> Str(parts[i])])

\* ArrayOf without the JSON path
ArrayOfSplitOnly(s) == SplitItems(Split(s, ","))

\* the conversion of castToArray: the casted array, or Undefined when
\* JSON.parse throws
ArrayOf(s) ==
  IF IsBracketed(s) THEN JsonParse(s).v ELSE SplitItems(Split(s, ","))

\* AfterConversion with the validation before the test of the conversion
AfterConversionValidatesFirst(key, casted, validator, err) ==
  IF Len(Validate(validator, casted).details) > 0
  THEN Thrown(FromJoi(key, Validate(validator, casted).details, casted),
              casted)
  ELSE IF casted.k = "undefined" THEN Thrown(err, Undefined)
  ELSE Returned(Validate(validator, casted).value, casted)

\* a caster after its conversion: casted is Undefined if the value could
\* not be converted, and then err is thrown
AfterConversion(key, casted, validator, err) ==
  IF casted.k = "undefined" THEN Thrown(err, Undefined)
  ELSE ValidateCasted(key, casted, validator)

castToArray(key, value, validator) ==
  IF value.k = "undefined" THEN AbsentResult(key, validator)
  ELSE AfterConversion(key, ArrayOf(value.s), validator,
                       EnvUnparseableFromJSONError(key))

TrueTokens ==
  {<<"t", "r", "u", "e">>, <<"y", "e", "s">>, <<"o", "n">>, <<"1">>}

FalseTokens ==
  {<<"f", "a", "l", "s", "e">>, <<"n", "o">>, <<"o", "f", "f">>, <<"0">>}

\* BooleanOf with every token that is not a true token taken as false
BooleanOfLenient(token) ==
  IF token \in TrueTokens THEN Bool(TRUE) ELSE Bool(FALSE)

\* the switch of castToBoolean: casted stays undefined for any other token
BooleanOf(token) ==
  IF token \in TrueTokens THEN Bool(TRUE)
  ELSE IF token \in FalseTokens THEN Bool(FALSE)
  ELSE Undefined

castToBoolean(key, value, validator) ==
  IF value.k = "undefined" THEN AbsentResult(key, validator)
  ELSE AfterConversion(key, BooleanOf(ToLowerCase(value.s)), validator,
                       EnvUnparseableBooleanError(key))

\* the conversion of castToDate: the timestamp, or Undefined when it is NaN
DateOf(casted) == IF IsNaN(casted) THEN Undefined ELSE casted

castToDate(key, value, validator, legacy) ==
  IF value.k = "undefined" THEN AbsentResult(key, validator)
  ELSE AfterConversion(key, DateOf(DateParse(value.s, legacy)), validator,
                       EnvUnparseableDateError(key))

\* NumberOf without the comparison of the strings
NumberOfNoRoundTrip(s, casted) == IF IsNaN(casted) THEN Undefined ELSE casted

\* the conversion of castToNumber: the number, or Undefined when it is NaN
\* or when its string is not the raw string
NumberOf(s, casted) ==
  IF IsNaN(casted) THEN Undefined
  ELSE IF NumberToString(casted) # s THEN Undefined
  ELSE casted

castToNumber(key, value, validator) ==
  IF value.k = "undefined" THEN AbsentResult(key, validator)
  ELSE AfterConversion(key, NumberOf(value.s, ToNumber(value.s)), validator,
                       EnvUnparseableNumberError(key))

castToObject(key, value, validator) ==
  IF value.k = "undefined" THEN AbsentResult(key, validator)
  ELSE AfterConversion(key, JsonParse(value.s).v, validator,
                       EnvUnparseableFromJSONError(key))

castToString(key, value, validator) ==
  IF value.k = "undefined" THEN AbsentResult(key, validator)
  ELSE ValidateCasted(key, Str(value.s), validator)

(***************************************************************************)
(* The constructor of Env.  The environment is the sequence of the         *)
(* [key, raw] entries of process.env and the schema the sequence of the    *)
(* [key, rule] entries of the EnvSchema, both in iteration order; a        *)
(* missing schema is the empty schema.  #cache is the sequence of the      *)
(* [key, value] entries of the Map, in insertion order.                    *)
(***************************************************************************)
KeysOf(entries) == {entries[i].key : i \in 1..Len(entries)}

Has(entries, key) == key \in KeysOf(entries)

Lookup(entries, key) ==
  entries[CHOOSE i \in 1..Len(entries) : entries[i].key = key]

\* the switch of the constructor over the type of schema[key]
Dispatch(key, value, rule, legacy) ==
  CASE rule.type = "array" -> castToArray(key, value, rule)
    [] rule.type = "boolean" -> castToBoolean(key, value, rule)
    [] rule.type = "date" -> castToDate(key, value, rule, legacy)
    [] rule.type = "number" -> castToNumber(key, value, rule)
    [] rule.type \in {"object", "any"} -> castToObject(key, value, rule)
    [] rule.type = "string" -> castToString(key, value, rule)
    [] OTHER -> Thrown(EnvSchemaTypeError(key, rule.type), Undefined)

\* the body of the first loop for one key of process.env
CastEntry(e, sch, legacy) ==
  IF Has(sch, e.key)
  THEN Dispatch(e.key, Str(e.raw), Lookup(sch, e.key).rule, legacy)
  ELSE castToString(e.key, Str(e.raw), FallbackRule)

\* EnvPass with the failing key skipped instead of the error thrown
\* the entry of the log for a caster call
LogEntry(key, r) == [key |-> key, ok |-> r.ok, casted |-> r.casted]

\* the entry of #cache for a value a caster returned
CacheEntry(key, r) == [key |-> key, value |-> r.v]

RECURSIVE EnvPassSkipFailed(_, _, _, _, _, _)
SkipFailedStep(environment, sch, legacy, i, c, l, r) ==
  EnvPassSkipFailed(environment, sch, legacy, i + 1,
    IF r.ok THEN Append(c, CacheEntry(environment[i].key, r)) ELSE c,
    Append(l, LogEntry(environment[i].key, r)))

EnvPassSkipFailed(environment, sch, legacy, i, c, l) ==
  IF i > Len(environment) THEN [err |-> NoError, cache |-> c, log |-> l]
  ELSE SkipFailedStep(environment, sch, legacy, i, c, l,
                      CastEntry(environment[i], sch, legacy))

\* the first loop, from entry i on: [err, cache, log]; log lists the
\* casters that ran, with the value each converted its input to
RECURSIVE EnvPass(_, _, _, _, _, _)
\* the rest of the loop body for entry i, r being what its caster did
EnvPassStep(environment, sch, legacy, i, c, l, r) ==
  IF ~r.ok
  THEN [err |-> r.err, cache |-> c,
        log |-> Append(l, LogEntry(environment[i].key, r))]
  ELSE EnvPass(environment, sch, legacy, i + 1,
               Append(c, CacheEntry(environment[i].key, r)),
               Append(l, LogEntry(environment[i].key, r)))

EnvPass(environment, sch, legacy, i, c, l) ==
  IF i > Len(environment) THEN [err |-> NoError, cache |-> c, log |-> l]
  ELSE EnvPassStep(environment, sch, legacy, i, c, l,
                   CastEntry(environment[i], sch, legacy))

\* PresencePass without the check of the presence flag
PresencePassNoCheck(sch, c, i) == NoError

\* the second loop, from schema entry i on: the error it throws, if any
RECURSIVE PresencePass(_, _, _)
PresencePass(sch, c, i) ==
  IF i > Len(sch) THEN NoError
  ELSE IF Has(c, sch[i].key) THEN PresencePass(sch, c, i + 1)
  ELSE IF sch[i].rule.type = "undefined" THEN TypeError(sch[i].key)
  ELSE IF GetPresenceFlag(sch[i].rule) = "required"
  THEN EnvMissingError(sch[i].key)
  ELSE PresencePass(sch, c, i + 1)

\* AfterEnvPass with the errors of the second loop before those of the first
AfterEnvPassPresenceFirst(sch, first) ==
  IF PresencePass(sch, first.cache, 1) # NoError
  THEN [err |-> PresencePass(sch, first.cache, 1), cache |-> first.cache,
        log |-> first.log]
  ELSE first

\* the constructor: both loops
AfterEnvPass(sch, first) ==
  IF first.err # NoError THEN first
  ELSE [err |-> PresencePass(sch, first.cache, 1), cache |-> first.cache,
        log |-> first.log]

Constructor(environment, sch, legacy) ==
  AfterEnvPass(sch, EnvPass(environment, sch, legacy, 1, <<>>, <<>>))

\* new Env(schema): the caller gets the instance only if the constructor
\* returns; if it throws, the caller gets the error and no reference
NewResult(c) ==
  [instance |-> c.err = NoError, thrown |-> c.err, cache |-> c.cache,
   log |-> c.log]

NewEnv(environment, sch, legacy) ==
  NewResult(Constructor(environment, sch, legacy))

(***************************************************************************)
(* The read operations of Env.                                             *)
(***************************************************************************)
\* a reference to the value #cache holds for a key: all copies the
\* references of the cached values, not the values
Ref(key) == [k |-> "ref", to |-> key]

\* get without the fallback
GetNoFallback(c, key, fallback) ==
  IF ~Has(c, key) THEN Undefined ELSE Lookup(c, key).value

\* get(key, fallback)
Get(c, key, fallback) ==
  IF ~Has(c, key) THEN fallback ELSE Lookup(c, key).value

ViewEntries(c) ==
  [i \in 1..Len(c) |-> [key |-> c[i].key, value |-> Ref(c[i].key)]]

\* all(true): a frozen object with one property per entry of #cache
AllObject(c) == [k |-> "view", map |-> FALSE, entries |-> ViewEntries(c)]

\* all(false): a frozen new Map of the entries of #cache
AllMap(c) == [k |-> "view", map |-> TRUE, entries |-> ViewEntries(c)]

\* all(obj)
All(c, obj) == IF obj THEN AllObject(c) ELSE AllMap(c)

IsMutable(v) == v.k \in {"array", "object", "date"}

\* what a caller can do to a mutable value it got from get or from a view:
\* empty an array (length = 0) or an object (delete), reset a date
Mutated(v) ==
  CASE v.k = "array" -> Arr(<<>>)
    [] v.k = "object" -> Obj(<<>>)
    [] v.k = "date" -> DateVal(<<>>)
    [] OTHER -> v

\* Map.prototype.set on the entries of a Map
MapSet(es, key, v) ==
  IF Has(es, key)
  THEN [i \in 1..Len(es) |->
          IF es[i].key = key THEN [key |-> key, value |-> v] ELSE es[i]]
  ELSE Append(es, [key |-> key, value |-> v])

(***************************************************************************)
(* The state machine: one construction of an Env by a caller, and the      *)
(* caller's reads of the instance it got.                                  *)
(***************************************************************************)
VARIABLES
  env,        \* process.env at the construction
  schema,     \* the schema passed to the constructor
  pc,         \* "new": before new Env(schema); "ready": it returned;
              \* "failed": it threw
  instance,   \* TRUE iff the caller holds a reference to an Env
  cache,      \* #cache of the constructed object
  thrown,     \* the error the constructor threw, NoError if none
  log,        \* the caster calls of the constructor
  built,      \* #cache as it was when the constructor finished
  result,     \* the last call of the caller and the value it holds from it
  files,          \* the files of the configuration directory
  configInstance, \* the module-level instance of src/config.ts: 0 while it
                  \* is undefined, else the index in configs of the Config
  configs,        \* the Config objects constructed so far
  calls           \* the calls of Config.initialize, each with its position

envVars == <<env, schema, pc, instance, cache, thrown, log, built, result>>

configVars == <<files, configInstance, configs, calls>>

vars == <<envVars, configVars>>

\* a call of Config.initialize that was not made yet
\* path: its argument; started: the files whose import it started;
\* pending: those whose import has not settled; imports: the values of the
\* settled ones; value: the Config it resolved with; error: the error it
\* rejected with
IdleCall == [pc |-> "idle", path |-> "", started |-> {}, pending |-> {},
             imports |-> <<>>, value |-> 0, error |-> NoError]

\* src/config.ts after it was loaded, before any call of initialize
ConfigIdle ==
  /\ configInstance = 0
  /\ configs = <<>>
  /\ calls = [c \in 1..MaxCalls |-> IdleCall]

ConfigFresh ==
  /\ files = {}
  /\ ConfigIdle

Keys == {"A", "B", "C"}

\* the sequences of n entries with pairwise distinct keys
EntrySeqs(n, entries) ==
  {q \in [1..n -> entries] :
     \A i, j \in 1..n : q[i].key = q[j].key => i = j}

UpTo(n, entries) == UNION {EntrySeqs(m, entries) : m \in 0..n}

RawPool == {<<"1">>, <<"x">>}

NumberRule(presence, min) == Rule("number", presence, min, <<>>, FALSE, TRUE)

RulePool ==
  {NumberRule("required", {}),
   Rule("array", "optional", {}, <<NumberRule("default", {})>>, FALSE, TRUE),
   Rule("symbol", "optional", {}, <<>>, FALSE, TRUE),
   Rule("undefined", "none", {}, <<>>, FALSE, TRUE)}

Environments ==
  UpTo(MaxEnvKeys, {[key |-> k, raw |-> r] : k \in Keys, r \in RawPool})

Schemas ==
  UpTo(MaxSchemaKeys, {[key |-> k, rule |-> r] : k \in Keys, r \in RulePool})

NoResult == [op |-> "none", key |-> "", fallback |-> Undefined,
             value |-> Undefined]

\* no Env was constructed by the caller
NoEnv ==
  /\ pc = "new"
  /\ instance = FALSE
  /\ cache = <<>>
  /\ thrown = NoError
  /\ log = <<>>
  /\ built = <<>>
  /\ result = NoResult

Fresh ==
  /\ NoEnv
  /\ ConfigFresh

Init ==
  /\ env \in Environments
  /\ schema \in Schemas
  /\ Fresh

\* const e = new Env(schema)
Construct ==
  /\ pc = "new"
  /\ \E legacy \in BOOLEAN :
       \E r \in {NewEnv(env, schema, legacy)} :
          /\ instance' = r.instance
          /\ thrown' = r.thrown
          /\ cache' = r.cache
          /\ log' = r.log
          /\ built' = r.cache
          /\ pc' = IF r.instance THEN "ready" ELSE "failed"
  /\ UNCHANGED <<env, schema, result>>
  /\ UNCHANGED configVars

Fallbacks == {Undefined, Str(<<"f", "b">>)}

\* x = e.get(key, fallback)
CallGet ==
  /\ instance
  /\ \E key \in Keys, fallback \in Fallbacks :
       result' = [op |-> "get", key |-> key, fallback |-> fallback,
                  value |-> Get(cache, key, fallback)]
  /\ UNCHANGED <<env, schema, pc, instance, cache, thrown, log, built>>
  /\ UNCHANGED configVars

\* x = e.all(obj)
CallAll ==
  /\ instance
  /\ \E obj \in BOOLEAN :
       result' = [op |-> "all", key |-> "", fallback |-> Undefined,
                  value |-> All(cache, obj)]
  /\ UNCHANGED <<env, schema, pc, instance, cache, thrown, log, built>>
  /\ UNCHANGED configVars

\* x = e.env, the getter: all(true)
CallEnv ==
  /\ instance
  /\ result' = [op |-> "env", key |-> "", fallback |-> Undefined,
                value |-> All(cache, TRUE)]
  /\ UNCHANGED <<env, schema, pc, instance, cache, thrown, log, built>>
  /\ UNCHANGED configVars

\* the caller empties the array (object, date) it holds from get or from a
\* view: the value it holds is the cached one, not a copy
MutateValue ==
  /\ instance
  /\ \E i \in 1..Len(cache) :
       /\ IsMutable(cache[i].value)
       /\ \/ result.op = "get" /\ result.key = cache[i].key
          \/ result.value.k = "view" /\ Has(result.value.entries, cache[i].key)
                /\ Lookup(result.value.entries, cache[i].key).value
                     = Ref(cache[i].key)
       /\ cache' = [cache EXCEPT ![i].value = Mutated(@)]
       /\ result' = IF result.op = "get"
                    THEN [result EXCEPT !.value = Mutated(@)]
                    ELSE result
  /\ UNCHANGED <<env, schema, pc, instance, thrown, log, built>>
  /\ UNCHANGED configVars

\* the caller writes to the view it holds: x[key] = "w" on the frozen
\* object changes nothing; x.set(key, "w") on the frozen Map sets the entry,
\* because Object.freeze does not reach the entries of a Map
WriteView ==
  /\ instance
  /\ result.value.k = "view"
  /\ \E key \in Keys :
       result' = [result EXCEPT
                    !.op = "write",
                    !.key = key,
                    !.value.entries =
                      IF result.value.map THEN MapSet(@, key, Str(<<"w">>))
                      ELSE @]
  /\ UNCHANGED <<env, schema, pc, instance, cache, thrown, log, built>>
  /\ UNCHANGED configVars

Next ==
  \/ Construct
  \/ CallGet
  \/ CallAll
  \/ CallEnv
  \/ MutateValue
  \/ WriteView

Spec == Init /\ [][Next]_vars

(***************************************************************************)
(* Config.initialize of src/config.ts.  A file name is the sequence of its *)
(* parts between the dots, as file.split('.') gives them, each part a      *)
(* string; a file is [name, body], body saying what importing it does.     *)
(***************************************************************************)
Chars(t) ==
  CASE t = "js" -> <<"j", "s">>
    [] t = "TS" -> <<"T", "S">>
    [] t = "json" -> <<"j", "s", "o", "n">>
    [] t = "mjs" -> <<"m", "j", "s">>
    [] t = "cjs" -> <<"c", "j", "s">>
    [] t = "ts" -> <<"t", "s">>
    [] t = "node" -> <<"n", "o", "d", "e">>
    [] t = "txt" -> <<"t", "x", "t">>
    [] t = "config" -> <<"c", "o", "n", "f", "i", "g">>
    [] OTHER -> <<t>>

\* the alternatives of the regular expression of the filter
Extensions ==
  {Chars("js"), Chars("mjs"), Chars("cjs"), Chars("json"), Chars("ts"),
   Chars("node")}

\* /\.(js|mjs|cjs|json|ts|node)$/i.test(file)
IsImportable(name) ==
  Len(name) >= 2 /\ ToLowerCase(name[Len(name)]) \in Extensions

\* parts.join('.')
RECURSIVE JoinDots(_)
JoinDots(parts) ==
  IF Len(parts) = 0 THEN <<>>
  ELSE IF Len(parts) = 1 THEN parts[1]
  ELSE parts[1] \o <<".">> \o JoinDots(Tail(parts))

IsNotConfig(part) == part # Chars("config")

\* file.split('.').slice(0, -1).filter((p) => !['config'].includes(p))
\*   .join('.')
ImportName(name) ==
  JoinDots(SelectSeq(SubSeq(name, 1, Len(name) - 1), IsNotConfig))

Alphabet ==
  <<".", "a", "b", "c", "d", "e", "f", "g", "h", "i", "j", "k", "l", "m",
    "n", "o", "p", "q", "r", "s", "t", "u", "v", "w", "x", "y", "z">>

CharRank(c) == CHOOSE i \in 1..Len(Alphabet) : Alphabet[i] = c

\* a.localeCompare(b) < 0, for strings of small letters and dots
RECURSIVE LocaleLess(_, _)
LocaleLess(a, b) ==
  IF Len(b) = 0 THEN FALSE
  ELSE IF Len(a) = 0 THEN TRUE
  ELSE IF a[1] # b[1] THEN CharRank(a[1]) < CharRank(b[1])
  ELSE LocaleLess(Tail(a), Tail(b))

\* the files in the order of the sort: by import name
IsSorted(q) ==
  \A i, j \in 1..Len(q) :
    i < j => ~LocaleLess(ImportName(q[j].name), ImportName(q[i].name))

Sorted(fileSet) ==
  CHOOSE q \in [1..Cardinality(fileSet) -> fileSet] :
    /\ \A f \in fileSet : \E i \in 1..Len(q) : q[i] = f
    /\ IsSorted(q)

\* the paths a caller passes
Paths == {"missing", "file", "dir", "other"}

\* fs.existsSync(path)
ExistsSync(path) == path # "missing"

\* fs.lstatSync(path).isDirectory()
IsDirectory(path) == path \in {"dir", "other"}

File(name, body) == [name |-> name, body |-> body]

\* the one file of the directory "other"
OtherFiles == {File(<<<<"o">>, Chars("js")>>, "module")}

\* fs.readdirSync(path)
ReaddirSync(path, dir) == IF path = "dir" THEN dir ELSE OtherFiles

\* readdirSync(path).filter(...)
ImportableFiles(path, dir) ==
  {f \in ReaddirSync(path, dir) : IsImportable(f.name)}

ConfigDirectoryDoesNotExistError(path) ==
  [name |-> "ConfigDirectoryDoesNotExistError", variable |-> path,
   messages |-> <<>>]

ConfigDirectoryIsNotDirectory(path) ==
  [name |-> "ConfigDirectoryIsNotDirectory", variable |-> path,
   messages |-> <<>>]

\* an error of the module loader that is no TypeError 'Unknown file
\* extension': a syntax error, a missing dependency, a throw of the file
ImportError(name) ==
  [name |-> "Error", variable |-> JoinDots(name), messages |-> <<>>]

Fulfilled(v) == [ok |-> TRUE, value |-> v, error |-> NoError]

Rejected(e) == [ok |-> FALSE, value |-> Undefined, error |-> e]

\* what a module exports: imported.default if there is one, else imported
Exported(v) == Obj(<<[key |-> <<"f", "o", "o">>, value |-> v]>>)

\* the import of a file that constructs an Env, r being the outcome of
\* new Env(schema), as src/tests/failing-example/example.ts does
EnvModule(r) ==
  IF r.thrown # NoError THEN Rejected(r.thrown)
  ELSE Fulfilled(Exported(Get(r.cache, "A", Undefined)))

\* the body of files.map: await import(absolutePath), require(absolutePath)
\* when it fails with TypeError 'Unknown file extension', and the value
\* kept for the import name
Import(file, environment, sch, legacy) ==
  CASE file.body = "module" -> Fulfilled(Exported(Str(<<"b", "a", "r">>)))
    [] file.body = "throws" -> Rejected(ImportError(file.name))
    [] file.body = "env" -> EnvModule(NewEnv(environment, sch, legacy))
    [] file.body = "required" -> Fulfilled(Exported(Str(<<"b", "a", "r">>)))
    [] file.body = "requiredUndefined" -> Fulfilled(Undefined)
    [] file.body = "requireThrows" -> Rejected(ImportError(file.name))

\* Object.assign({}, ...importArray), then the for loop that keeps the keys
\* whose value is not undefined: the entries of configObjectsFromFile, in
\* the order of the insertion of their keys
RECURSIVE Assigned(_, _, _)
Assigned(q, imports, acc) ==
  IF Len(q) = 0 THEN acc
  ELSE Assigned(Tail(q), imports,
                MapSet(acc, ImportName(q[1].name), imports[q[1]]))

IsDefined(entry) == entry.value # Undefined

ConfigObjects(fileSet, imports) ==
  SelectSeq(Assigned(Sorted(fileSet), imports, <<>>), IsDefined)

\* new Config(configs)
NewConfig(configObjects) == [cache |-> configObjects, frozen |-> TRUE]

(***************************************************************************)
(* The state machine of Config.initialize: up to MaxCalls calls, each      *)
(* running from the call to its await, then with one step per import that  *)
(* settles, then from the await to its return.                             *)
(***************************************************************************)
\* the call after the part of initialize before the await
Started(path, inst, dir) ==
  IF inst # 0
  THEN [IdleCall EXCEPT !.pc = "resolved", !.path = path, !.value = inst]
  ELSE IF ~ExistsSync(path)
  THEN [IdleCall EXCEPT !.pc = "rejected", !.path = path,
                        !.error = ConfigDirectoryDoesNotExistError(path)]
  ELSE IF ~IsDirectory(path)
  THEN [IdleCall EXCEPT !.pc = "rejected", !.path = path,
                        !.error = ConfigDirectoryIsNotDirectory(path)]
  ELSE [IdleCall EXCEPT !.pc = "importing", !.path = path,
                        !.started = ImportableFiles(path, dir),
                        !.pending = ImportableFiles(path, dir)]

\* the call after the import of file f settled with r: Promise.all rejects
\* with the first rejection, and waits for the other imports otherwise
Settled(call, f, r) ==
  IF r.ok
  THEN [call EXCEPT !.pending = @ \ {f},
                    !.imports = [g \in DOMAIN @ \cup {f} |->
                                   IF g = f THEN r.value ELSE @[g]]]
  ELSE [call EXCEPT !.pc = "rejected", !.pending = @ \ {f},
                    !.error = r.error]

\* Config.initialize(path), up to await Promise.all(...)
Initialize ==
  /\ \E c \in 1..MaxCalls, path \in Paths :
       /\ calls[c].pc = "idle"
       /\ \A d \in 1..(c - 1) : calls[d].pc # "idle"
       /\ calls' = [calls EXCEPT ![c] = Started(path, configInstance, files)]
  /\ UNCHANGED <<files, configInstance, configs>>
  /\ UNCHANGED envVars

\* the import of one file of a call settles
SettleImport ==
  /\ \E c \in 1..MaxCalls :
       /\ calls[c].pc = "importing"
       /\ \E f \in calls[c].pending, legacy \in BOOLEAN :
            calls' = [calls EXCEPT ![c] =
                        Settled(calls[c], f, Import(f, env, schema, legacy))]
  /\ UNCHANGED <<files, configInstance, configs>>
  /\ UNCHANGED envVars

\* Promise.all is fulfilled: the rest of initialize, up to return instance
Finish ==
  /\ \E c \in 1..MaxCalls :
       /\ calls[c].pc = "importing"
       /\ calls[c].pending = {}
       /\ configs' = Append(configs,
                            NewConfig(ConfigObjects(calls[c].started,
                                                    calls[c].imports)))
       /\ configInstance' = Len(configs) + 1
       /\ calls' = [calls EXCEPT ![c].pc = "resolved",
                                 ![c].value = Len(configs) + 1]
  /\ UNCHANGED files
  /\ UNCHANGED envVars

NextConfig ==
  \/ Initialize
  \/ SettleImport
  \/ Finish

\* the files a configuration directory can hold
FilePool ==
  {File(<<<<"a">>, Chars("js")>>, "module"),
   File(<<<<"b">>, Chars("config"), Chars("json")>>, "module"),
   File(<<<<"c">>, Chars("TS")>>, "module"),
   File(<<<<"d">>, Chars("js")>>, "throws"),
   File(<<<<"e">>, Chars("ts")>>, "env"),
   File(<<<<"m">>, Chars("mjs")>>, "required"),
   File(<<<<"u">>, Chars("cjs")>>, "requiredUndefined"),
   File(<<<<"x">>, Chars("node")>>, "requireThrows"),
   File(<<<<"t">>, Chars("txt")>>, "throws")}

Directories == {d \in SUBSET FilePool : Cardinality(d) <= MaxFiles}

\* the environment lacks or has the key A that the schema of the file with
\* body "env" requires
InitConfig ==
  /\ env \in {<<>>, <<[key |-> "A", raw |-> <<"1">>]>>}
  /\ schema = <<[key |-> "A", rule |-> NumberRule("required", {})]>>
  /\ NoEnv
  /\ files \in Directories
  /\ ConfigIdle

SpecConfig == InitConfig /\ [][NextConfig]_vars

(***************************************************************************)
(* One caster at work: the environment holds the single key A, the schema  *)
(* a rule for it, and the raw value ranges over every string of an         *)
(* alphabet up to a length, and over the examples of the documentation     *)
(* and of the tests.                                                       *)
(***************************************************************************)
Strings(alphabet, n) == UNION {[1..m -> alphabet] : m \in 0..n}

OneKey(raws, rules) ==
  /\ env \in {<<[key |-> "A", raw |-> r]>> : r \in raws}
  /\ schema \in {<<[key |-> "A", rule |-> r]>> : r \in rules}
  /\ Fresh

NextCast ==
  \/ Construct
  \/ CallGet

ArrAlphabet == {"[", "]", ",", "1", "2", "x"}

ArrExamples ==
  {<<"1", ",", "2", ",", "3">>,
   <<"[", "1", ",", "2", ",", "3", "]">>,
   <<"[", "1", ",", "2">>,
   <<"[", "1", ",", "2", ",", "]">>,
   <<"2", "0", ",", "1", ",", "2">>}

ArrayRule(items, abortEarly) ==
  Rule("array", "required", {}, items, FALSE, abortEarly)

ArrayRules ==
  {ArrayRule(<<>>, TRUE),
   ArrayRule(<<NumberRule("default", {})>>, TRUE),
   ArrayRule(<<NumberRule("default", {20})>>, TRUE),
   ArrayRule(<<NumberRule("default", {20})>>, FALSE)}

InitArray == OneKey(Strings(ArrAlphabet, MaxArrLen) \cup ArrExamples, ArrayRules)

SpecArray == InitArray /\ [][NextCast]_vars

NumAlphabet == {"0", "1", "2", ".", "-", "+", "e", " "}

NumExamples ==
  {<<"1", "e", "3">>,
   <<"$", "1", ".", "0", "0">>,
   <<"8", "0", "8", "0">>,
   <<"-", "1", "2", "3">>,
   <<"1", ".", "2", "3", "4">>,
   <<"1", "e", "+", "2", "1">>,
   <<"0", ".", "0", "0", "0", "0", "0", "1">>,
   <<"I", "n", "f", "i", "n", "i", "t", "y">>}

NumberRules == {NumberRule("required", {}), NumberRule("required", {20})}

InitNumber == OneKey(Strings(NumAlphabet, MaxNumLen) \cup NumExamples, NumberRules)

SpecNumber == InitNumber /\ [][NextCast]_vars

BoolAlphabet == {"o", "O", "n", "N", "f", "F", "1", "0", " "}

\* the spellings of a token in every mix of letter cases
UpperChar(c) ==
  CASE c = "a" -> "A" [] c = "e" -> "E" [] c = "f" -> "F" [] c = "l" -> "L"
    [] c = "n" -> "N" [] c = "o" -> "O" [] c = "r" -> "R" [] c = "s" -> "S"
    [] c = "t" -> "T" [] c = "u" -> "U" [] c = "y" -> "Y" [] OTHER -> c

Spellings(token) ==
  {s \in [1..Len(token) -> {token[i] : i \in 1..Len(token)}
                             \cup {UpperChar(token[i]) : i \in 1..Len(token)}] :
     \A i \in 1..Len(token) : s[i] \in {token[i], UpperChar(token[i])}}

BoolExamples ==
  UNION {Spellings(t) : t \in {<<"t", "r", "u", "e">>, <<"y", "e", "s">>,
                                <<"f", "a", "l", "s", "e">>, <<"o", "f", "f">>}}
    \cup {<<"t", "r", "u">>, <<"t", "r", "u", "e", "e">>, <<"y">>,
          <<"m", "a", "y", "b", "e">>, <<"2">>}

BooleanRules ==
  {Rule("boolean", "required", {}, <<>>, FALSE, TRUE),
   Rule("boolean", "optional", {}, <<>>, FALSE, TRUE)}

InitBoolean ==
  OneKey(Strings(BoolAlphabet, MaxBoolLen) \cup BoolExamples, BooleanRules)

SpecBoolean == InitBoolean /\ [][NextCast]_vars

(***************************************************************************)
(* Keys the schema does not declare: the environment holds up to           *)
(* MaxEnvKeys keys, whose raw values include the empty string and a string *)
(* with blanks, and the schema declares some of them or none.              *)
(***************************************************************************)
UndeclaredRaws == {<<>>, <<"1">>, <<" ", "x", " ">>}

StringRule(presence) == Rule("string", presence, {}, <<>>, FALSE, TRUE)

DeclaredRules == {NumberRule("optional", {}), StringRule("required")}

InitUndeclared ==
  /\ env \in UpTo(MaxEnvKeys,
                  {[key |-> k, raw |-> r] : k \in Keys, r \in UndeclaredRaws})
  /\ schema \in UpTo(MaxSchemaKeys,
                     {[key |-> k, rule |-> r] : k \in Keys, r \in DeclaredRules})
  /\ Fresh

SpecUndeclared == InitUndeclared /\ [][NextCast]_vars

(***************************************************************************)
(* Every kind of rule at work: the keys A and B of the environment hold    *)
(* raw values that spell a value of some kind, and the schema declares     *)
(* rules of any kind for some of them or for none.                         *)
(***************************************************************************)
KindRaws ==
  {<<>>, <<"1">>, <<"x">>, <<"o", "n">>,
   <<"2", "0", "1", "9", "-", "0", "1", "-", "0", "1">>,
   <<"1", ",", "x">>, <<"[", "1", "]">>, <<"{", "}">>,
   <<"{", "\"", "a", "\"", ":", "1", "}">>}

KindRule(type) == Rule(type, "required", {}, <<>>, FALSE, TRUE)

KindRules ==
  {KindRule("string"), KindRule("number"), KindRule("boolean"),
   KindRule("date"), KindRule("array"), KindRule("object"),
   Rule("array", "required", {}, <<NumberRule("default", {})>>, FALSE, TRUE)}

InitKinds ==
  /\ env \in UpTo(MaxEnvKeys,
                  {[key |-> k, raw |-> r] : k \in {"A", "B"}, r \in KindRaws})
  /\ schema \in UpTo(MaxSchemaKeys,
                     {[key |-> k, rule |-> r] : k \in {"A", "B"},
                                               r \in KindRules})
  /\ Fresh

SpecKinds == InitKinds /\ [][NextCast]_vars

(***************************************************************************)
(* The steps of a caster: the key A holds a raw value that cannot be       *)
(* converted, or that converts to a value that breaks the rule, or that    *)
(* passes, for a rule of every kind.                                       *)
(***************************************************************************)
OrderRaws ==
  {<<>>, <<"x">>, <<"1", "e", "3">>, <<"5">>, <<"2", "5">>, <<"o", "n">>,
   <<"2", "0", "1", "9", "-", "0", "1", "-", "0", "1">>,
   <<"{">>, <<"{", "}">>, <<"[", "1", "]">>, <<"[", "1", ",", "]">>,
   <<"5", ",", "x">>, <<"2", "5", ",", "x">>}

OrderRules ==
  {Rule(type, presence, min, <<>>, FALSE, TRUE) :
     type \in {"string", "boolean", "date", "object"},
     presence \in {"required", "optional"}, min \in {{}}}
  \cup {NumberRule(presence, {20}) : presence \in {"required", "optional"}}
  \cup {Rule("array", presence, {}, <<NumberRule("default", {20})>>,
             FALSE, TRUE) : presence \in {"required", "optional"}}

InitOrder == OneKey(OrderRaws, OrderRules)

SpecOrder == InitOrder /\ [][NextCast]_vars

(***************************************************************************)
(* Properties of the construction.                                         *)
(***************************************************************************)
Constructed == pc # "new"

\* schema entry i is marked required and its key is not in the environment
RequiredAbsent(i) ==
  /\ schema[i].rule.presence = "required"
  /\ ~Has(env, schema[i].key)

\* schema entry i stops the second loop: its key is absent and it is
\* required, or it is no Joi schema and has no presence flag to read
StopsPresencePass(i) ==
  /\ ~Has(env, schema[i].key)
  /\ schema[i].rule.presence = "required" \/ schema[i].rule.type = "undefined"

\* every caster the first loop called returned
FirstLoopClean == \A i \in 1..Len(log) : log[i].ok

\* every entry of the schema is a Joi schema
JoiSchemas == \A i \in 1..Len(schema) : schema[i].rule.type # "undefined"

\* C1 as stated: for every schema (of Joi schemas) and environment, every
\* required key absent from the environment makes the construction raise
\* EnvMissingError naming that key.
C1_AsStated ==
  (Constructed /\ JoiSchemas) =>
    \A i \in 1..Len(schema) :
      RequiredAbsent(i) => thrown = EnvMissingError(schema[i].key)

\* C1: if a schema key is marked required and is absent from the
\* environment, the construction raises and returns no instance; when the
\* loop over the environment keys raised nothing, the error is the
\* EnvMissingError naming the first schema entry, in schema order, that
\* stops the presence loop.
C1_FirstMissingRequired ==
  Constructed =>
    \A i \in 1..Len(schema) :
      RequiredAbsent(i) =>
        /\ ~instance
        /\ thrown # NoError
        /\ (FirstLoopClean /\ \A j \in 1..(i - 1) : ~StopsPresencePass(j))
             => thrown = EnvMissingError(schema[i].key)

\* the second entry of the schema is the first required key that is absent,
\* and the environment holds a key that was cast
C1_Witness ==
  /\ pc = "failed"
  /\ Len(schema) = 2
  /\ RequiredAbsent(2)
  /\ ~StopsPresencePass(1)
  /\ Len(env) >= 1
  /\ thrown = EnvMissingError(schema[2].key)

\* a caster fails on some key of the environment
SomeCastFails ==
  \E i \in 1..Len(env) : \A legacy \in BOOLEAN :
    ~CastEntry(env[i], schema, legacy).ok

\* C2: the construction is all-or-nothing.  If a cast or a validation of
\* any environment key fails, or the presence check fails, the constructor
\* throws, the caller holds no instance and no read has returned anything;
\* an instance the caller holds has a #cache with every environment key.
C2_AllOrNothing ==
  Constructed =>
    /\ (SomeCastFails \/ \E i \in 1..Len(schema) : StopsPresencePass(i))
         => thrown # NoError
    /\ thrown # NoError => ~instance /\ result = NoResult
    /\ instance => KeysOf(cache) = KeysOf(env) /\ thrown = NoError
    /\ result # NoResult => instance

\* the constructor threw after it had put a key into #cache
C2_Witness ==
  /\ pc = "failed"
  /\ Len(cache) >= 1
  /\ Len(cache) < Len(env)
  /\ ~instance

\* schema entry i is the only thing wrong: every environment key of another
\* entry casts, and no other entry stops the presence loop
OnlyFault(i) ==
  /\ \A j \in 1..Len(env) :
       env[j].key # schema[i].key => CastEntry(env[j], schema, TRUE).ok
  /\ \A j \in 1..Len(schema) : j # i => ~StopsPresencePass(j)

\* C3: a Joi schema whose type is outside the supported ones makes the
\* construction raise EnvSchemaTypeError for its key, whether or not the
\* key is set in the environment (nothing else being wrong with the schema
\* or the environment).
C3_UnsupportedKindRaises ==
  (Constructed /\ JoiSchemas) =>
    \A i \in 1..Len(schema) :
      (schema[i].rule.type \notin SupportedTypes /\ OnlyFault(i))
        => thrown = EnvSchemaTypeError(schema[i].key, schema[i].rule.type)

(***************************************************************************)
(* Properties of the casters, for an environment with the single key A.    *)
(***************************************************************************)
Raw == env[1].raw
TheRule == schema[1].rule
Casted == log[1].casted
Stored == cache[1].value

FirstChar(s) == IF Len(s) = 0 THEN "" ELSE s[1]
LastChar(s) == IF Len(s) = 0 THEN "" ELSE s[Len(s)]

\* the strings of the items joined by commas
RECURSIVE Join(_)
Join(items) ==
  IF Len(items) = 0 THEN <<>>
  ELSE IF Len(items) = 1 THEN items[1].s
  ELSE items[1].s \o <<",">> \o Join(Tail(items))

\* JSON.stringify of a value made of arrays, numbers and plain strings
RECURSIVE Stringify(_)
RECURSIVE StringifyItems(_)
Stringify(v) ==
  IF v.k = "array" THEN <<"[">> \o StringifyItems(v.items) \o <<"]">>
  ELSE IF v.k = "string" THEN <<"\"">> \o v.s \o <<"\"">>
  ELSE NumberToString(v)

StringifyItems(items) ==
  IF Len(items) = 0 THEN <<>>
  ELSE IF Len(items) = 1 THEN Stringify(items[1])
  ELSE Stringify(items[1]) \o <<",">> \o StringifyItems(Tail(items))

\* the item spells or is a non-negative integer
IsIntegerItem(item) ==
  \/ item.k = "string" /\ Len(item.s) >= 1 /\ AllDigits(item.s)
  \/ item.k = "number" /\ AllDigits(NumberToString(item))

IntegerOf(item) ==
  IF item.k = "string" THEN DigitsToInt(item.s)
  ELSE DigitsToInt(NumberToString(item))

\* the item breaks the item schema number().min(m), m in min
BreaksItemRule(item, min) ==
  ~IsIntegerItem(item) \/ \E m \in min : IntegerOf(item) < m

Breaking(items, min) == {i \in 1..Len(items) : BreaksItemRule(items[i], min)}

\* C4: an EnvSchemaValidationError carries exactly one message per
\* constraint violation; in particular the rule array().items(number().
\* min(20)) applied to "1,2,3" raises a validation error with three
\* messages.
C4_OneMessagePerViolation ==
  (Constructed /\ TheRule.type = "array" /\ Len(TheRule.items) = 1) =>
    /\ thrown.name = "EnvSchemaValidationError" =>
         Len(thrown.messages)
           = Cardinality(Breaking(Casted.items, TheRule.items[1].min))
    /\ (Raw = <<"1", ",", "2", ",", "3">> /\ TheRule.items[1].min = {20}
          /\ TheRule.abortEarly)
         => thrown.name = "EnvSchemaValidationError"
              /\ Len(thrown.messages) = 3

\* C5 as stated: a raw value that opens with [ and is not valid JSON makes
\* the construction raise EnvUnparseableFromJSONError.
C5_AsStated ==
  (Constructed /\ FirstChar(Raw) = "[" /\ ~JsonParse(Raw).ok)
    => thrown = EnvUnparseableFromJSONError("A")

\* C5: a raw value that opens with [, closes with ] and is not valid JSON
\* makes the construction raise EnvUnparseableFromJSONError; a raw value
\* that opens with [ and does not close with ] is split on the commas and
\* never raises that error.
C5_BracketedMalformed ==
  (Constructed /\ FirstChar(Raw) = "[") =>
    IF LastChar(Raw) = "]"
    THEN ~JsonParse(Raw).ok =>
           thrown = EnvUnparseableFromJSONError("A") /\ ~instance
    ELSE /\ thrown.name # "EnvUnparseableFromJSONError"
         /\ Casted.k = "array"
         /\ Join(Casted.items) = Raw

\* "[1,]" is bracketed and no JSON
C5_Witness ==
  /\ pc = "failed"
  /\ Raw = <<"[", "1", ",", "]">>
  /\ thrown = EnvUnparseableFromJSONError("A")

\* C6: the raw string alone chooses the conversion.  A raw value that
\* starts with [ and ends with ] is parsed as JSON: it is no JSON, or the
\* casted array written back as JSON is the raw value.  Every other raw
\* value is split on the commas: the items are strings without comma which,
\* joined by commas, give the raw value.  Then the items are validated by
\* the item schema: the first item that breaks it is reported, and
\* otherwise the stored value is the array of the validator, whose items
\* are the numbers the casted items spell.
C6_ArrayConversion ==
  Constructed =>
    /\ IF FirstChar(Raw) = "[" /\ LastChar(Raw) = "]"
       THEN \/ Casted = Undefined /\ thrown = EnvUnparseableFromJSONError("A")
            \/ Casted.k = "array" /\ Stringify(Casted) = Raw
       ELSE /\ Casted.k = "array"
            /\ \A i \in 1..Len(Casted.items) :
                 /\ Casted.items[i].k = "string"
                 /\ \A j \in 1..Len(Casted.items[i].s) :
                      Casted.items[i].s[j] # ","
            /\ Join(Casted.items) = Raw
    /\ Raw = <<"[", "1", ",", "2", ",", "3", "]">> =>
         Casted = Arr(<<ToNumber(<<"1">>), ToNumber(<<"2">>),
                        ToNumber(<<"3">>)>>)
    /\ Raw = <<"1", ",", "2", ",", "3">> =>
         Casted = Arr(<<Str(<<"1">>), Str(<<"2">>), Str(<<"3">>)>>)
    /\ (Casted # Undefined /\ Len(TheRule.items) = 1) =>
         IF Breaking(Casted.items, TheRule.items[1].min) # {}
         THEN /\ thrown.name = "EnvSchemaValidationError"
              /\ \E i \in Breaking(Casted.items, TheRule.items[1].min) :
                   /\ thrown.messages[1].path = <<i - 1>>
                   /\ thrown.messages[1].got = Casted.items[i]
                   /\ \A j \in Breaking(Casted.items, TheRule.items[1].min) :
                        i <= j
         ELSE /\ instance
              /\ Stored.k = "array"
              /\ Len(Stored.items) = Len(Casted.items)
              /\ \A i \in 1..Len(Stored.items) :
                   /\ Stored.items[i].k = "number"
                   /\ NumberToString(Stored.items[i])
                        = NatToStr(IntegerOf(Casted.items[i]))
    /\ (Casted # Undefined /\ Len(TheRule.items) = 0) =>
         instance /\ Stored = Casted

\* "1,2" was split and the validator turned its items into numbers
C6_Witness ==
  /\ pc = "ready"
  /\ Raw = <<"1", ",", "2">>
  /\ Casted = Arr(<<Str(<<"1">>), Str(<<"2">>)>>)
  /\ Stored = Arr(<<ToNumber(<<"1">>), ToNumber(<<"2">>)>>)

\* a plain decimal literal in canonical form: [-] integer [. fraction], the
\* integer without leading zero, the fraction without trailing zero, not -0
CanonicalPlain(s) ==
  LET u == IF FirstChar(s) = "-" THEN Tail(s) ELSE s
      dot == IndexOf(u, {"."})
      ip == IF dot = 0 THEN u ELSE SubSeq(u, 1, dot - 1)
      fp == IF dot = 0 THEN <<>> ELSE SubSeq(u, dot + 1, Len(u))
  IN /\ Len(s) <= 8
     /\ Len(ip) >= 1 /\ AllDigits(ip) /\ AllDigits(fp)
     /\ Len(ip) > 1 => ip[1] # "0"
     /\ dot # 0 => Len(fp) >= 1 /\ fp[Len(fp)] # "0"
     /\ FirstChar(s) = "-" => \E i \in 1..Len(u) : u[i] \notin {"0", "."}

RoundTrips(s) == ~IsNaN(ToNumber(s)) /\ NumberToString(ToNumber(s)) = s

\* C7: for a number rule and the raw string s, if Number(s) written back
\* as a string is s, the cast is Number(s): the validator gets it, the
\* construction does not raise EnvUnparseableNumberError and an instance
\* stores it; a plain decimal literal in canonical form is such a string.
\* If Number(s) is NaN or its string differs from s, as for "1e3" and
\* "$1.00", the construction raises EnvUnparseableNumberError.
C7_NumberRoundTrip ==
  Constructed =>
    /\ CanonicalPlain(Raw) => RoundTrips(Raw)
    /\ Raw \in {<<"1", "e", "3">>, <<"$", "1", ".", "0", "0">>}
         => ~RoundTrips(Raw)
    /\ IF RoundTrips(Raw)
       THEN /\ Casted = ToNumber(Raw)
            /\ thrown.name # "EnvUnparseableNumberError"
            /\ instance => Stored = ToNumber(Raw)
            /\ (CanonicalPlain(Raw) /\ TheRule.min = {}) => instance
       ELSE thrown = EnvUnparseableNumberError("A") /\ ~instance

\* "1e3" is a number whose string is "1000"
C7_Witness ==
  /\ pc = "failed"
  /\ Raw = <<"1", "e", "3">>
  /\ NumberToString(ToNumber(Raw)) = <<"1", "0", "0", "0">>
  /\ thrown = EnvUnparseableNumberError("A")

\* s is the token, in any mix of letter cases
SpellsToken(s, token) ==
  /\ Len(s) = Len(token)
  /\ \A i \in 1..Len(token) : s[i] \in {token[i], UpperChar(token[i])}

\* C8: for a boolean rule, the raw token in any letter case maps true, yes,
\* on and 1 to true and false, no, off and 0 to false; every other token,
\* the empty string included, makes the construction raise
\* EnvUnparseableBooleanError.
C8_BooleanTokens ==
  Constructed =>
    IF \E t \in {<<"t", "r", "u", "e">>, <<"y", "e", "s">>, <<"o", "n">>,
                 <<"1">>} : SpellsToken(Raw, t)
    THEN instance /\ Casted = Bool(TRUE) /\ Stored = Bool(TRUE)
    ELSE IF \E t \in {<<"f", "a", "l", "s", "e">>, <<"n", "o">>,
                      <<"o", "f", "f">>, <<"0">>} : SpellsToken(Raw, t)
    THEN instance /\ Casted = Bool(FALSE) /\ Stored = Bool(FALSE)
    ELSE thrown = EnvUnparseableBooleanError("A") /\ ~instance

\* "oFF" was cast to false
C8_Witness ==
  /\ pc = "ready"
  /\ Raw = <<"o", "F", "F">>
  /\ Stored = Bool(FALSE)

(***************************************************************************)
(* Properties of the reads.                                                *)
(***************************************************************************)
\* C9: on a constructed loader get never raises: for a key absent from the
\* snapshot, such as an optional schema key not set in the environment, it
\* returns the fallback (undefined if none is given); for a key in the
\* snapshot it returns the stored value, whatever the fallback.
C9_GetFallback ==
  /\ instance => ENABLED CallGet
  /\ result.op = "get" =>
       IF Has(env, result.key)
       THEN Has(cache, result.key)
              /\ result.value = Lookup(cache, result.key).value
       ELSE result.value = result.fallback

\* get of an optional schema key that is not set returned the fallback
C9_Witness ==
  /\ result.op = "get"
  /\ Has(schema, result.key)
  /\ Lookup(schema, result.key).rule.presence = "optional"
  /\ ~Has(env, result.key)
  /\ Len(cache) >= 1
  /\ result.fallback = Str(<<"f", "b">>)
  /\ result.value = result.fallback

\* C10: the snapshot is immutable after the construction: whatever the
\* caller does with get, all, env and the values and views they return,
\* every key of the snapshot maps to the value it had when the construction
\* finished.
C10_SnapshotImmutable == instance => cache = built

\* the value a property or an entry of a view holds
Resolved(c, v) ==
  IF v.k = "ref" /\ Has(c, v.to) THEN Lookup(c, v.to).value ELSE v

\* C11: the frozen object of all(true) and the frozen Map of all(false)
\* agree with the snapshot and cannot diverge from it: at any time a view
\* the caller holds has exactly the keys of the snapshot, in its order, and
\* for each key the value of the snapshot, whatever the caller did to the
\* view.
C11_ViewsAgree ==
  (instance /\ result.value.k = "view") =>
    /\ Len(result.value.entries) = Len(cache)
    /\ \A i \in 1..Len(cache) :
         /\ result.value.entries[i].key = cache[i].key
         /\ Resolved(cache, result.value.entries[i].value) = cache[i].value

\* C12: after a successful construction the keys of the snapshot are the
\* keys of the environment, in its order: every key of the environment is
\* in it, declared by the schema or not, and no other key; a key the
\* schema does not declare holds its raw string unchanged, the empty string
\* included, and no constraint is applied to it: an error of the
\* construction always names a key the schema declares.
C12_SnapshotCoversEnvironment ==
  /\ pc = "ready" =>
       /\ Len(cache) = Len(env)
       /\ \A i \in 1..Len(env) :
            /\ cache[i].key = env[i].key
            /\ ~Has(schema, env[i].key) => cache[i].value = Str(env[i].raw)
  /\ pc = "failed" => Has(schema, thrown.variable)
  /\ (pc # "new" /\ schema = <<>>) => pc = "ready"

\* an undeclared key with the empty string, next to a declared key
C12_Witness ==
  /\ pc = "ready"
  /\ Len(env) = 2
  /\ Has(schema, env[1].key)
  /\ ~Has(schema, env[2].key)
  /\ env[2].raw = <<>>
  /\ cache[2] = [key |-> env[2].key, value |-> Str(<<>>)]
  /\ result.op = "get" /\ result.key = env[2].key
  /\ result.value = Str(<<>>)

\* the JavaScript type of the value is the one the kind of rule asks for
HasKind(v, type) ==
  CASE type = "string" -> v.k = "string"
    [] type = "number" -> v.k = "number" /\ "of" \notin DOMAIN v
    [] type = "boolean" -> v.k = "boolean" /\ v.b \in BOOLEAN
    [] type = "date" -> v.k = "date"
    [] type = "array" -> v.k = "array"
    [] type = "object" -> v.k = "object"
    [] OTHER -> FALSE

\* C13: in every snapshot of a successful construction the value of a key
\* has the type of the kind of its rule: a string for a string rule, a
\* number for a number rule, a boolean for a boolean rule, a Date for a
\* date rule, an array for an array rule, an object for an object rule;
\* and a key without rule holds a string.
C13_ValuesHaveTheirKind ==
  pc = "ready" =>
    \A i \in 1..Len(built) :
      IF Has(schema, built[i].key)
      THEN HasKind(built[i].value, Lookup(schema, built[i].key).rule.type)
      ELSE built[i].value.k = "string"

\* a date rule whose value is a Date, next to a key without rule
C13_Witness ==
  /\ pc = "ready"
  /\ Len(built) = 2
  /\ Has(schema, built[1].key)
  /\ Lookup(schema, built[1].key).rule.type = "date"
  /\ built[1].value.k = "date"
  /\ ~Has(schema, built[2].key)
  /\ built[2].value.k = "string"
  /\ result.op = "get" /\ result.key = built[1].key
  /\ result.value = built[1].value

(***************************************************************************)
(* Properties of Config.initialize.                                        *)
(***************************************************************************)
Settling(c) == calls[c].pc \in {"resolved", "rejected"}

\* what the import of the file does in the environment of the run
Outcome(f) == Import(f, env, schema, FALSE)

\* the error is one the Env loader raises
IsEnvError(e) ==
  e.name \in {"EnvMissingError", "EnvSchemaTypeError",
              "EnvSchemaValidationError", "EnvUnparseableFromJSONError",
              "EnvUnparseableNumberError", "EnvUnparseableDateError",
              "EnvUnparseableBooleanError"}

\* the files of the call whose import fails with an error of the Env loader
EnvFailures(c) ==
  {f \in calls[c].started : ~Outcome(f).ok /\ IsEnvError(Outcome(f).error)}

\* the import names of the files of the call whose import gives a value
Loaded(c) ==
  {ImportName(f.name) :
     f \in {g \in calls[c].started :
              Outcome(g).ok /\ Outcome(g).value # Undefined}}

\* C14: Config.initialize over a directory skips every file whose import
\* fails and loads the other files into the Config it resolves with,
\* unless an import fails with an error of the Env loader: then it rejects
\* with that error.  Stated for the first call, which finds no instance.
C14_SkipsFailedImports ==
  (Settling(1) /\ IsDirectory(calls[1].path)) =>
    IF EnvFailures(1) # {}
    THEN /\ calls[1].pc = "rejected"
         /\ \E f \in EnvFailures(1) : calls[1].error = Outcome(f).error
    ELSE /\ calls[1].pc = "resolved"
         /\ KeysOf(configs[calls[1].value].cache) = Loaded(1)

\* C15: every call of Config.initialize(path), whatever the calls before it
\* did, rejects with ConfigDirectoryDoesNotExistError when the path does
\* not exist and with ConfigDirectoryIsNotDirectory when the path exists
\* and is no directory, and imports no file in either case.
C15_PathAlwaysChecked ==
  \A c \in 1..MaxCalls :
    (calls[c].pc # "idle" /\ ~IsDirectory(calls[c].path)) =>
      /\ calls[c].pc = "rejected"
      /\ calls[c].error =
           IF ExistsSync(calls[c].path)
           THEN ConfigDirectoryIsNotDirectory(calls[c].path)
           ELSE ConfigDirectoryDoesNotExistError(calls[c].path)
      /\ calls[c].started = {}

\* C17: the initialization of the Config happens once per process: over
\* every interleaving of calls of Config.initialize, overlapping ones and
\* ones with different paths included, at most one Config is constructed,
\* all the calls that resolve return that one Config, and the module-level
\* instance is set only by a call that resolved, so that after calls that
\* rejected it is unset and a later call initializes afresh.
C17_OneTimeInitialization ==
  /\ Len(configs) <= 1
  /\ \A c, d \in 1..MaxCalls :
       (calls[c].pc = "resolved" /\ calls[d].pc = "resolved")
         => calls[c].value = calls[d].value
  /\ configInstance # 0 =>
       \E c \in 1..MaxCalls :
         calls[c].pc = "resolved" /\ calls[c].value = configInstance
  /\ (\A c \in 1..MaxCalls : calls[c].pc \in {"idle", "rejected"})
       => configInstance = 0

(***************************************************************************)
(* Properties of the order of the steps.                                   *)
(***************************************************************************)
\* the error a kind raises for a raw value it cannot convert
UnparseableOf(type) ==
  CASE type = "number" -> EnvUnparseableNumberError("A")
    [] type = "boolean" -> EnvUnparseableBooleanError("A")
    [] type = "date" -> EnvUnparseableDateError("A")
    [] type \in {"array", "object", "any"} -> EnvUnparseableFromJSONError("A")
    [] OTHER -> NoError

IsBooleanToken(s) ==
  \E t \in {<<"t", "r", "u", "e">>, <<"y", "e", "s">>, <<"o", "n">>, <<"1">>,
            <<"f", "a", "l", "s", "e">>, <<"n", "o">>, <<"o", "f", "f">>,
            <<"0">>} : SpellsToken(s, t)

\* the raw value has no conversion for the kind
CannotConvert(type, s) ==
  CASE type = "number" -> ~RoundTrips(s)
    [] type = "boolean" -> ~IsBooleanToken(s)
    [] type = "date" -> \A i \in 1..Len(s) : s[i] \notin Digits
    [] type = "object" -> ~JsonParse(s).ok
    [] type = "array" ->
         FirstChar(s) = "[" /\ LastChar(s) = "]" /\ ~JsonParse(s).ok
    [] OTHER -> FALSE

\* the raw value has a conversion for the kind
CanConvert(type, s) ==
  CASE type = "number" -> RoundTrips(s)
    [] type = "boolean" -> IsBooleanToken(s)
    [] type = "date" -> IsIsoDate(s)
    [] type = "object" -> JsonParse(s).ok
    [] type = "array" ->
         ~(FirstChar(s) = "[" /\ LastChar(s) = "]") \/ JsonParse(s).ok
    [] OTHER -> TRUE

\* the value the message reports is the one the path leads to in the
\* casted value; the empty path leads to no value
ReportsCasted(message, casted) ==
  IF Len(message.path) = 0 THEN message.got = Undefined
  ELSE /\ casted.k = "array"
       /\ message.got = casted.items[message.path[1] + 1]

\* C16: in every caster the absence check comes first, then the
\* conversion, then the validation.  An absent value is returned or
\* refused by its presence flag alone.  A raw value without conversion
\* raises the unparseable error of its kind and the validator never gets a
\* value, whatever the constraints of the rule; a validation error is
\* raised only for a value that was converted, it is an
\* EnvSchemaValidationError that names the variable, and its messages are
\* built from the casted value, not from the raw string.
C16_AbsenceConversionValidation ==
  Constructed =>
    /\ Dispatch("A", Undefined, TheRule, FALSE).casted = Undefined
    /\ Dispatch("A", Undefined, TheRule, FALSE).ok
         = (TheRule.presence = "optional")
    /\ TheRule.presence # "optional" =>
         Dispatch("A", Undefined, TheRule, FALSE).err = EnvMissingError("A")
    /\ CannotConvert(TheRule.type, Raw) =>
         /\ thrown = UnparseableOf(TheRule.type)
         /\ Casted = Undefined
         /\ ~instance
    /\ CanConvert(TheRule.type, Raw) =>
         /\ Casted # Undefined
         /\ thrown.name \in {"none", "EnvSchemaValidationError"}
    /\ Casted = Undefined => thrown = UnparseableOf(TheRule.type)
    /\ thrown.name = "EnvSchemaValidationError" =>
         /\ Casted # Undefined
         /\ thrown.variable = "A"
         /\ Len(thrown.messages) >= 1
         /\ \A i \in 1..Len(thrown.messages) :
              ReportsCasted(thrown.messages[i], Casted)
         /\ ~instance

\* "x" has no number, and the rule's minimum was never looked at
C16_WitnessUnparseable ==
  /\ pc = "failed"
  /\ Raw = <<"x">>
  /\ TheRule.type = "number" /\ TheRule.min = {20}
  /\ thrown = EnvUnparseableNumberError("A")
  /\ Casted = Undefined

\* "5,x" was split, and its first item is reported as the string it is
C16_Witness ==
  /\ pc = "failed"
  /\ Raw = <<"5", ",", "x">>
  /\ TheRule.type = "array"
  /\ thrown.name = "EnvSchemaValidationError"
  /\ thrown.variable = "A"
  /\ thrown.messages[1].path = <<0>>
  /\ thrown.messages[1].got = Str(<<"5">>)

\* the caster of the i-th key of the environment, taken alone, throws
FailsAlone(i) == ~CastEntry(env[i], schema, FALSE).ok

\* C18: the constructor runs the loop over the keys of the environment
\* before the loop over the keys of the schema: when a key of the
\* environment fails its cast or its validation or has a rule of an
\* unsupported kind, the error raised is the one of the first such key in
\* the order of the environment and the loop stops there, even if the
\* schema has a required key that is not set; it is never the
\* missing-variable error.
C18_EnvironmentPassFirst ==
  Constructed =>
    \A i \in 1..Len(env) :
      (FailsAlone(i) /\ \A j \in 1..(i - 1) : ~FailsAlone(j)) =>
        /\ thrown = CastEntry(env[i], schema, FALSE).err
        /\ thrown.variable = env[i].key
        /\ thrown.name \in {"EnvSchemaTypeError", "EnvSchemaValidationError",
                            "EnvUnparseableNumberError",
                            "EnvUnparseableFromJSONError"}
        /\ ~instance
        /\ Len(log) = i

\* the second key of the environment fails its cast while a required key
\* of the schema is not set
C18_Witness ==
  /\ pc = "failed"
  /\ Len(env) = 2
  /\ ~FailsAlone(1) /\ FailsAlone(2)
  /\ \E i \in 1..Len(schema) : RequiredAbsent(i)
  /\ thrown = EnvUnparseableNumberError(env[2].key)

====
